---- MODULE Spec2Model ----
(***************************************************************************)
(* Model of the freelancer platform backend: the avatar upload endpoint    *)
(* (POST /api/upload-avatar) of the express server, the multer upload      *)
(* middleware in front of it, the server start-up, and the diagnostic       *)
(* scripts that inspect the user_profiles table.                            *)
(***************************************************************************)
EXTENDS Integers, FiniteSets, Sequences, TLC

\* ---------------------------------------------------------------- bounds
MaxReqs == 2      \* requests to the endpoint in one run, possibly in flight at once

clockTimestamp == 1   \* the instant at which the tokens are verified

Reqs == 1..MaxReqs

\* ------------------------------------------------------- program constants
fileSize == 5 * 1024 * 1024          \* multer limits.fileSize
DefaultJwtSecret == "tu_jwt_secret_aqui"
EnvJwtSecret == "JWT_SECRET"         \* the value the environment supplies
ForgedSecret == "forged"             \* any key that is neither of the two
freelancerId == "7f5ad001"
clientId == "e5da31b7"
clientEmail == "adriano.aqp00@gmail.com"
otherEmail == "freelancer@mail"

UserIds == {clientId, freelancerId}
Emails == {clientEmail, otherEmail}
NoFile == 0
NoAvatar == <<>>
NoEmail == "null"

\* ----------------------------------------------------------------- inputs
\* The multipart 'avatar' part of a request: absent, or a file with a mime
\* type and a size.
Files ==
  { [present |-> FALSE, image |-> FALSE, size |-> 0] } \cup
  { [present |-> TRUE, image |-> TRUE, size |-> 1],
    [present |-> TRUE, image |-> TRUE, size |-> fileSize + 1],
    [present |-> TRUE, image |-> FALSE, size |-> 1] }

\* The Authorization header: absent, or a bearer token.  A token is either
\* unparsable or a JWT signed with some key, carrying id, email and exp.
NoToken == [present |-> FALSE, wellFormed |-> FALSE, signedWith |-> "", exp |-> 0,
            id |-> "", email |-> ""]
MalformedToken == [present |-> TRUE, wellFormed |-> FALSE, signedWith |-> "", exp |-> 0,
                   id |-> "", email |-> ""]
Jwt(key, exp, id, email) == [present |-> TRUE, wellFormed |-> TRUE, signedWith |-> key,
                             exp |-> exp, id |-> id, email |-> email]
Tokens ==
  { NoToken, MalformedToken,
    Jwt(EnvJwtSecret, clockTimestamp + 1, clientId, clientEmail),
    Jwt(EnvJwtSecret, clockTimestamp, clientId, clientEmail),
    Jwt(DefaultJwtSecret, clockTimestamp + 1, clientId, clientEmail),
    Jwt(ForgedSecret, clockTimestamp + 1, clientId, clientEmail) }

VARIABLES
  jwtSecretSet,          \* process.env.JWT_SECRET is defined
  isSupabaseConfigured,  \* config/supabase: a client could be created
  serverState,           \* "starting" | "listening"
  uploads,               \* filenames present in uploads/avatars
  nextFile,              \* next unique suffix handed out by the disk storage
  user_profiles,         \* table user_profiles: user_id -> [email, avatar_url]
  freelancers,           \* table freelancers: role records [id, email]
  req,                   \* the requests to POST /api/upload-avatar
  scriptPc,              \* position of check-user-profiles-table.js
  scriptLog              \* what the script reported about freelancerId

vars == <<jwtSecretSet, isSupabaseConfigured, serverState, uploads, nextFile,
          user_profiles, freelancers, req, scriptPc, scriptLog>>

IdleReq == [pc |-> "idle", file |-> [present |-> FALSE, image |-> FALSE, size |-> 0],
            token |-> NoToken, filename |-> NoFile,
            dbOutcome |-> "none", status |-> 0, message |-> "", avatar_url |-> NoAvatar]

\* ----------------------------------------------------------- pure helpers
\* process.env.JWT_SECRET || 'tu_jwt_secret_aqui'
JwtSecret(isSet) == IF isSet THEN EnvJwtSecret ELSE DefaultJwtSecret

\* jsonwebtoken.verify: parse, then signature, then expiry.
JwtVerify(token, secret, clock) ==
  IF ~token.wellFormed THEN "Malformed"
  ELSE IF token.signedWith # secret THEN "InvalidSignature"
  ELSE IF clock >= token.exp THEN "Expired"
  ELSE "ok"

\* `${BACKEND_URL}/uploads/avatars/${req.file.filename}`
AvatarUrl(filename) == <<"/uploads/avatars/", filename>>

\* A handler that leaves the uploaded file where it is.
UnlinkNothing(files, filename) == files

\* fs.unlinkSync(req.file.path)
Unlink(files, filename) == files \ {filename}

\* supabase.from('user_profiles').update({avatar_url}).eq('email', email)
UpdateAvatarByEmail(table, email, url) ==
  [u \in DOMAIN table |->
     IF table[u].email = email THEN [table[u] EXCEPT !.avatar_url = url]
     ELSE table[u]]

\* res.status(st).json({message, avatar_url})
Respond(r, st, msg, url) ==
  [r EXCEPT !.pc = "done", !.status = st, !.message = msg, !.avatar_url = url]

\* ------------------------------------------------------------------- Init
ProfileTables ==
  UNION { [D -> [email : Emails, avatar_url : {NoAvatar}]] : D \in SUBSET UserIds }

RoleTables ==
  { {} } \cup { { [id |-> freelancerId, email |-> e] } : e \in {otherEmail, NoEmail} }

\* The server process before app.listen, with no request yet.
Init ==
  /\ jwtSecretSet \in BOOLEAN
  /\ isSupabaseConfigured \in BOOLEAN
  /\ serverState = "starting"
  /\ uploads = {}
  /\ nextFile = 1
  /\ user_profiles \in ProfileTables
  /\ freelancers = {}
  /\ req = [r \in Reqs |-> IdleReq]
  /\ scriptPc = "start"
  /\ scriptLog = "none"

\* ---------------------------------------------------------------- actions
\* app.listen(port, ...): nothing in the start-up inspects JWT_SECRET.
Listen ==
  /\ serverState = "starting"
  /\ serverState' = "listening"
  /\ UNCHANGED <<jwtSecretSet, isSupabaseConfigured, uploads, nextFile,
                 user_profiles, freelancers, req, scriptPc, scriptLog>>

\* A client sends POST /api/upload-avatar and upload.single('avatar') runs:
\* fileFilter, then the disk storage under the size limit.  An error goes to
\* the express error handler (status 500); a file that exceeds the limit is
\* removed again by multer.
Multer(r) ==
  /\ serverState = "listening"
  /\ req[r].pc = "idle"
  /\ \E f \in Files, t \in Tokens :
       LET q == [IdleReq EXCEPT !.file = f, !.token = t] IN
       IF ~f.present
         THEN /\ req' = [req EXCEPT ![r] = [q EXCEPT !.pc = "handler"]]
              /\ UNCHANGED <<uploads, nextFile>>
       ELSE IF ~f.image
         THEN /\ req' = [req EXCEPT ![r] = Respond(q, 500, "Algo salió mal!", NoAvatar)]
              /\ UNCHANGED <<uploads, nextFile>>
       ELSE IF f.size > fileSize
         THEN /\ req' = [req EXCEPT ![r] = Respond(q, 500, "Algo salió mal!", NoAvatar)]
              /\ UNCHANGED <<uploads, nextFile>>
       ELSE /\ uploads' = uploads \cup {nextFile}
            /\ nextFile' = nextFile + 1
            /\ req' = [req EXCEPT ![r] = [q EXCEPT !.pc = "handler", !.filename = nextFile]]
  /\ UNCHANGED <<jwtSecretSet, isSupabaseConfigured, serverState,
                 user_profiles, freelancers, scriptPc, scriptLog>>

\* The route handler up to its first await.
HandlerStart(r) ==
  /\ req[r].pc = "handler"
  /\ LET q == req[r] IN
     IF q.filename = NoFile
       THEN req' = [req EXCEPT ![r] =
                      Respond(q, 400, "No se proporcionó ningún archivo", NoAvatar)]
     ELSE IF ~q.token.present
       THEN req' = [req EXCEPT ![r] =
                      Respond(q, 401, "Token de autenticación requerido", NoAvatar)]
     ELSE IF JwtVerify(q.token, JwtSecret(jwtSecretSet), clockTimestamp) # "ok"
       THEN req' = [req EXCEPT ![r] = Respond(q, 401, "Token inválido", NoAvatar)]
     ELSE IF isSupabaseConfigured
       THEN req' = [req EXCEPT ![r].pc = "awaiting"]
     ELSE req' = [req EXCEPT ![r] =
                    Respond(q, 200, "Avatar subido exitosamente", AvatarUrl(q.filename))]
  /\ UNCHANGED <<jwtSecretSet, isSupabaseConfigured, serverState, uploads, nextFile,
                 user_profiles, freelancers, scriptPc, scriptLog>>

\* The store executes the update the handler awaits: it applies it to every
\* row with the token's email, or reports an error, or the call throws.
SupabaseUpdate(r) ==
  /\ req[r].pc = "awaiting"
  /\ \E outcome \in {"ok", "error", "throw"} :
       /\ req' = [req EXCEPT ![r].pc = "updated", ![r].dbOutcome = outcome]
       /\ user_profiles' =
            IF outcome = "ok"
              THEN UpdateAvatarByEmail(user_profiles, req[r].token.email,
                                       AvatarUrl(req[r].filename))
              ELSE user_profiles
  /\ UNCHANGED <<jwtSecretSet, isSupabaseConfigured, serverState, uploads, nextFile,
                 freelancers, scriptPc, scriptLog>>

\* The route handler after the await: the error branch, the catch block, or
\* the success response.
HandlerResume(r) ==
  /\ req[r].pc = "updated"
  /\ LET q == req[r] IN
     IF q.dbOutcome = "error"
       THEN /\ uploads' = Unlink(uploads, q.filename)
            /\ req' = [req EXCEPT ![r] =
                 Respond(q, 500, "Error al actualizar el avatar en la base de datos",
                         NoAvatar)]
     ELSE IF q.dbOutcome = "throw"
       THEN /\ uploads' = Unlink(uploads, q.filename)
            /\ req' = [req EXCEPT ![r] =
                 Respond(q, 500, "Error interno del servidor", NoAvatar)]
     ELSE /\ uploads' = uploads
          /\ req' = [req EXCEPT ![r] =
               Respond(q, 200, "Avatar subido exitosamente", AvatarUrl(q.filename))]
  /\ UNCHANGED <<jwtSecretSet, isSupabaseConfigured, serverState, nextFile,
                 user_profiles, freelancers, scriptPc, scriptLog>>

Next ==
  \/ Listen
  \/ \E r \in Reqs : Multer(r)
  \/ \E r \in Reqs : HandlerStart(r)
  \/ \E r \in Reqs : SupabaseUpdate(r)
  \/ \E r \in Reqs : HandlerResume(r)

Spec == Init /\ [][Next]_vars

\* ------------------------------------------- check-user-profiles-table.js
\* GET /api/user-profiles/:id as the script sees it: the statuses the
\* endpoint can answer with (getUnified: the record, or NotFound; the
\* script's bearer token may be refused; the store may fail).
UserProfileEndpoint(table, id) ==
  {401, 500} \cup (IF id \in DOMAIN table THEN {200} ELSE {404})

\* GET /api/user-profiles: the list, a refusal or a failure.
UserProfilesEndpoint == {200, 401, 500}

\* The tables and the server as the script finds them.
InitScript ==
  /\ jwtSecretSet \in BOOLEAN
  /\ isSupabaseConfigured \in BOOLEAN
  /\ serverState \in {"starting", "listening"}
  /\ uploads = {}
  /\ nextFile = 1
  /\ user_profiles \in ProfileTables
  /\ freelancers \in RoleTables
  /\ req = [r \in Reqs |-> IdleReq]
  /\ scriptPc = "start"
  /\ scriptLog = "none"

\* checkUserProfiles, first fetch: list user_profiles and log status and
\* rows.  A fetch against a server that is not listening throws, and the
\* catch block logs the error.
FetchUserProfiles ==
  /\ scriptPc = "start"
  /\ IF serverState # "listening"
       THEN /\ scriptPc' = "done"
            /\ scriptLog' = "error"
       ELSE /\ \E st \in UserProfilesEndpoint : scriptPc' = "listed"
            /\ scriptLog' = scriptLog
  /\ UNCHANGED <<jwtSecretSet, isSupabaseConfigured, serverState, uploads, nextFile,
                 user_profiles, freelancers, req>>

\* checkUserProfiles, second fetch: look freelancerId up in user_profiles
\* and log whether it was found.  Nothing is written to either table.
FetchFreelancerProfile ==
  /\ scriptPc = "listed"
  /\ \E st \in UserProfileEndpoint(user_profiles, freelancerId) :
       scriptLog' = IF st = 200 THEN "found" ELSE "notFound"
  /\ scriptPc' = "done"
  /\ UNCHANGED <<jwtSecretSet, isSupabaseConfigured, serverState, uploads, nextFile,
                 user_profiles, freelancers, req>>

\* checkUserProfiles of the second script: select up to 10 rows of
\* user_profiles through the supabase client and log them.
SelectUserProfiles ==
  /\ scriptPc = "start"
  /\ scriptPc' = "done"
  /\ IF ~isSupabaseConfigured
       THEN scriptLog' = "notConfigured"
       ELSE \E outcome \in {"ok", "error", "throw"} :
              scriptLog' = IF outcome = "ok" THEN "selected" ELSE "error"
  /\ UNCHANGED <<jwtSecretSet, isSupabaseConfigured, serverState, uploads, nextFile,
                 user_profiles, freelancers, req>>

NextScript ==
  \/ FetchUserProfiles
  \/ FetchFreelancerProfile
  \/ SelectUserProfiles

SpecScript == InitScript /\ [][NextScript]_vars

\* ------------------------------------------------------------- properties
TypeOK ==
  /\ serverState \in {"starting", "listening"}
  /\ \A r \in Reqs : req[r].pc \in {"idle", "handler", "awaiting", "updated", "done"}
  /\ scriptPc \in {"start", "listed", "done"}

\* The request's credential is absent or fails verification.
CredentialInvalid(q) ==
  \/ ~q.token.present
  \/ JwtVerify(q.token, JwtSecret(jwtSecretSet), clockTimestamp) # "ok"

\* The upload error kind the request's file calls for.
UploadErrorKind(f) ==
  IF ~f.present THEN "none"
  ELSE IF ~f.image THEN "UnsupportedMediaType"
  ELSE IF f.size > fileSize THEN "PayloadTooLarge"
  ELSE "none"

\* C1: whenever a request has been answered after its file was stored and
\* the update of the profile's avatar reference failed (error result or
\* exception), the stored file is gone from uploads/avatars.
C1_NoOrphanOnUpdateFailure ==
  \A r \in Reqs :
    (req[r].pc = "done" /\ req[r].dbOutcome \in {"error", "throw"})
      => req[r].filename \notin uploads

C1_Witness ==
  \E r \in Reqs :
    /\ req[r].pc = "done"
    /\ req[r].dbOutcome \in {"error", "throw"}
    /\ req[r].filename # NoFile
    /\ req[r].status = 500
    /\ req[r].filename \notin uploads

\* C2: of two avatar updates for the same user that are in flight at the
\* same time, at most one is applied successfully; the other one is refused
\* (ConcurrencyConflict).
C2_OnlyOneConcurrentUpdateSucceeds ==
  \A r1, r2 \in Reqs :
    (/\ r1 # r2
     /\ req[r1].pc = "updated" /\ req[r2].pc = "updated"
     /\ req[r1].token.email = req[r2].token.email)
      => ~(req[r1].dbOutcome = "ok" /\ req[r2].dbOutcome = "ok")

\* C3: the credential is verified before the file is stored: a request
\* without a credential, or with one that fails verification, never has a
\* file of its own in uploads/avatars, and when its file was acceptable it
\* is answered with 401.
C3_VerifiedBeforePersisted ==
  \A r \in Reqs :
    (req[r].pc # "idle" /\ CredentialInvalid(req[r]))
      => /\ req[r].filename \notin uploads
         /\ (req[r].pc = "done" /\ UploadErrorKind(req[r].file) = "none"
               /\ req[r].file.present) => req[r].status = 401

\* C4: at the moment a request is answered with success, the profile record
\* of the token's user id holds exactly the avatar reference returned.
C4_SuccessMeansRebound ==
  [][\A r \in Reqs :
       (req[r].pc # "done" /\ req'[r].pc = "done" /\ req'[r].status = 200)
         => /\ req'[r].token.id \in DOMAIN user_profiles'
            /\ user_profiles'[req'[r].token.id].avatar_url = req'[r].avatar_url]_vars

\* C5: a request whose credential is absent, malformed, wrongly signed or
\* expired never reaches the profile update and is answered with 401.
C5_NoPartialTrust ==
  \A r \in Reqs :
    (req[r].pc = "done" /\ CredentialInvalid(req[r]))
      => /\ req[r].dbOutcome = "none"
         /\ req[r].status = 401

\* C6: two rejections for different verification failures (InvalidSignature,
\* Malformed, Expired) can be told apart by their responses.
C6_SpecificErrorKind ==
  \A r1, r2 \in Reqs :
    LET k1 == JwtVerify(req[r1].token, JwtSecret(jwtSecretSet), clockTimestamp)
        k2 == JwtVerify(req[r2].token, JwtSecret(jwtSecretSet), clockTimestamp)
    IN (/\ req[r1].pc = "done" /\ req[r2].pc = "done"
        /\ req[r1].filename # NoFile /\ req[r2].filename # NoFile
        /\ req[r1].token.present /\ req[r2].token.present
        /\ k1 # "ok" /\ k2 # "ok" /\ k1 # k2)
         => <<req[r1].status, req[r1].message>> # <<req[r2].status, req[r2].message>>

\* C7: a file that is not an image and a file above the size limit are each
\* rejected with a status of their own, different from each other and from
\* the generic internal failure (500), and leave no file in uploads/avatars.
C7_UploadErrorKinds ==
  \A r1 \in Reqs :
    (req[r1].pc = "done" /\ UploadErrorKind(req[r1].file) # "none")
      => /\ req[r1].status # 500
         /\ req[r1].filename \notin uploads
         /\ \A r2 \in Reqs :
              (/\ req[r2].pc = "done"
               /\ UploadErrorKind(req[r2].file) \notin {"none", UploadErrorKind(req[r1].file)})
                => req[r2].status # req[r1].status

\* C8: the server accepts requests only if the environment supplied the
\* signing secret, and every accepted token was signed with that secret.
C8_SecretRequiredAtStartup ==
  /\ serverState = "listening" => jwtSecretSet
  /\ \A r \in Reqs :
       (req[r].pc \in {"awaiting", "updated"} \/ (req[r].pc = "done" /\ req[r].status = 200))
         => req[r].token.signedWith = EnvJwtSecret

\* C9: when the check has run for a user id that has a role record and no
\* unified profile record, either a unified profile record with the role
\* record's email is in the store, or the email is unavailable and the
\* outcome is IrreconcilableProfile.
C9_DivergenceResolvedOrNamed ==
  \A role \in freelancers :
    (/\ scriptPc = "done"
     /\ scriptLog \in {"found", "notFound"}
     /\ ~(role.id \in DOMAIN user_profiles /\ user_profiles[role.id].email # role.email))
      => \/ /\ role.id \in DOMAIN user_profiles
            /\ user_profiles[role.id].email = role.email
         \/ /\ role.email = NoEmail
            /\ scriptLog = "IrreconcilableProfile"

\* C10: an update made with a token issued for user A changes the avatar
\* reference of A's profile record only.
C10_OnlyOwnProfileChanges ==
  [][\A u \in DOMAIN user_profiles :
       user_profiles'[u].avatar_url # user_profiles[u].avatar_url
         => \E r \in Reqs : /\ req[r].pc = "awaiting"
                            /\ req'[r].pc = "updated"
                            /\ req[r].token.id = u]_vars
====
